---- MODULE Spec2Model ----
(***************************************************************************)
(* Loopmaster-AI: loop-point detection (src/services/audioDsp.ts), the WAV *)
(* writer with 'smpl' chunk (src/services/wavWriter.ts) and the part of    *)
(* the editor that hands loops to the writer                               *)
(* (src/components/WaveformEditor.tsx).                                    *)
(*                                                                         *)
(* Samples are Float32 values.  The model keeps them as integers in units  *)
(* of 1/SampleScale (SampleScale = 2^16), i.e. as dyadic rationals, so the *)
(* arithmetic of the code (sums of absolute differences, the scaling by    *)
(* 0x7FFF / 0x8000, truncation) is exact integer arithmetic here.  Scores  *)
(* are kept as exact rationals; the rounding of the double-precision       *)
(* division and multiplication of calculateCorrelation is not modelled.    *)
(***************************************************************************)
EXTENDS Integers, Sequences, FiniteSets, TLC

VARIABLES
    buffer,      \* detector: the AudioBuffer handed to detectLoopPoints
    points,      \* detector: the list returned by detectLoopPoints;
                 \* host/editor: the loopPoints of the item
    dpc,         \* detector: "idle" before the call, "done" after it;
                 \* host: the progress of the item
    activeBuffer,\* writer/editor: the AudioBuffer being edited and exported
    loopPoint,   \* writer/editor: LoopPoint | null (<<>> is null, <<lp>> a loop)
    isDragging,  \* editor: "none" (null), "start" or "end"
    blob,        \* writer: the byte image of the last export, <<>> before it
    written,     \* writer: <<>> before the first export, then <<l>> with l
                 \* the loop argument of the last export (<<>> is null)
    zc,          \* findZeroCrossing: <<>> before the call, then the record of
                 \* its arguments target, windowSize and its result
    scan,        \* the start scan of one end region: <<>> when there is none,
                 \* else the locals of lines 66-89 and the probes made so far
    batchItems,  \* App: the batch list, a sequence of BatchItem records
    activeItemId,\* App: the id of the active item, 0 for null
    inflight,    \* App: the calls of loadItemForEditing waiting for decodeFile
    zipJob,      \* App: <<>> when no batch export runs, else <<j>> with j the
                 \* locals of the running exportBatchZip
    loopsOfFile  \* App: for each file that decodes, the loops loadItemForEditing
                 \* and exportBatchZip find for its audio; <<>> elsewhere

scanVars == <<zc, scan>>
appVars == <<batchItems, activeItemId, inflight, zipJob, loopsOfFile>>

vars == <<buffer, points, dpc, activeBuffer, loopPoint, isDragging, blob, written,
          scanVars, appVars>>

\* no call of findZeroCrossing and no scan under way
ScanIdle == zc = <<>> /\ scan = <<>>

\* an empty batch list, nothing loading, no batch export
AppIdle ==
    batchItems = <<>> /\ activeItemId = 0 /\ inflight = {} /\ zipJob = <<>> /\ loopsOfFile = <<>>

(***************************************************************************)
(* Numbers                                                                 *)
(***************************************************************************)
SampleScale == 2^16          \* model unit: sample value 1.0

Max(a, b) == IF a >= b THEN a ELSE b
Min(a, b) == IF a <= b THEN a ELSE b
Abs(a) == IF a < 0 THEN -a ELSE a

\* Math.floor(len * 0.75), Math.floor(len * 0.5): both products are exact
Floor075(len) == (3 * len) \div 4
Floor05(len) == len \div 2

(***************************************************************************)
(* AudioBuffer.  A channel is a piecewise description of its Float32Array: *)
(* a sequence of segments [upto, half, amp]; the samples with index below  *)
(* upto (and not below the previous segment's upto) are the constant amp   *)
(* when half = 0, and otherwise a square wave of half-period half: amp on  *)
(* even half-periods, -amp on odd ones.                                    *)
(***************************************************************************)
RECURSIVE SegAt(_, _, _)
SegAt(wave, k, i) ==
    IF k >= Len(wave) \/ i < wave[k].upto THEN wave[k] ELSE SegAt(wave, k + 1, i)

\* data[i] of a Float32Array
At(data, i) ==
    LET s == SegAt(data.wave, 1, i)
    IN  IF s.half = 0 THEN s.amp
        ELSE IF (i \div s.half) % 2 = 0 THEN s.amp ELSE -s.amp

\* the mutant of getChannelData: the last channel, whatever c
getChannelData_last(buf, c) ==
    [len |-> buf.length, wave |-> buf.channels[buf.numberOfChannels]]

\* buffer.getChannelData(c): the Float32Array of channel c (0-based)
getChannelData(buf, c) == [len |-> buf.length, wave |-> buf.channels[c + 1]]

(***************************************************************************)
(* src/services/audioDsp.ts                                                *)
(***************************************************************************)
windowSearch == 2000
startWindow == 100
correlationWindow == 500
minRegionIndex == 1000
minLoopLength == 1000
minValidEnd == 22050
scoreThreshold == 60
maxResults == 3

\* the mutant of zeroCrossingStep: the index after the sign change is kept
zeroCrossingStep_next(data, i, best) ==
    LET a == At(data, i)
        b == At(data, i + 1)
        dist == Abs(a)
    IN  IF ((a <= 0 /\ b > 0) \/ (a >= 0 /\ b < 0)) /\ dist < best[2]
        THEN <<i + 1, dist>>
        ELSE best

\* one iteration of the loop of findZeroCrossing, lines 12-20, on the loop
\* state best = <<bestIndex, minVal>>
zeroCrossingStep(data, i, best) ==
    LET a == At(data, i)
        b == At(data, i + 1)
        dist == Abs(a)
    IN  IF ((a <= 0 /\ b > 0) \/ (a >= 0 /\ b < 0)) /\ dist < best[2]
        THEN <<i, dist>>
        ELSE best

\* the iterations i = lo, lo+1, ..., hi-1 of that loop, in this order, from
\* the loop state best.  The range is halved to keep the evaluation depth
\* logarithmic; the test left = best only makes the first half be evaluated
\* before the second (both branches are the second half run from left).
RECURSIVE zeroCrossingScan(_, _, _, _)
zeroCrossingScan(data, lo, hi, best) ==
    IF lo >= hi THEN best
    ELSE IF hi = lo + 1 THEN zeroCrossingStep(data, lo, best)
    ELSE LET mid == (lo + hi) \div 2
             left == zeroCrossingScan(data, lo, mid, best)
         IN  IF left = best THEN zeroCrossingScan(data, mid, hi, best)
                            ELSE zeroCrossingScan(data, mid, hi, left)

findZeroCrossing(data, target, windowSize) ==
    LET start == Max(0, target - windowSize)
        end == Min(data.len - 1, target + windowSize)
    IN  zeroCrossingScan(data, start, end, <<target, SampleScale>>)[1]

\* the sum of lines 29-32 over i = lo .. hi-1, in sample units
RECURSIVE sumAbsDiff(_, _, _, _, _)
sumAbsDiff(data, idxA, idxB, lo, hi) ==
    IF lo >= hi THEN 0
    ELSE IF hi = lo + 1 THEN Abs(At(data, idxA + lo) - At(data, idxB + lo))
    ELSE LET mid == (lo + hi) \div 2
         IN  sumAbsDiff(data, idxA, idxB, lo, mid) + sumAbsDiff(data, idxA, idxB, mid, hi)

\* A score s of the code is kept as the integer s * ScoreDen:
\* 100 - (sum / window) * 200  =  (100 * ScoreDen - 2 * sum) / ScoreDen
\* with sum in sample units and ScoreDen = window * SampleScale / 100
ScoreDen == (correlationWindow * SampleScale) \div 100

\* the mutant of calculateCorrelation: windows may pass the end of the data
calculateCorrelation_unguarded(data, idxA, idxB, window) ==
    IF idxA < 0 \/ idxB < 0
    THEN 0
    ELSE Max(0, 100 * ScoreDen - 2 * sumAbsDiff(data, idxA, idxB, 0, window))

calculateCorrelation(data, idxA, idxB, window) ==
    IF idxA < 0 \/ idxB < 0 \/ idxA + window >= data.len \/ idxB + window >= data.len
    THEN 0
    ELSE Max(0, 100 * ScoreDen - 2 * sumAbsDiff(data, idxA, idxB, 0, window))

\* Math.round of a scaled score: floor(s + 1/2)
RoundScore(s) == (2 * s + ScoreDen) \div (2 * ScoreDen)

\* the mutant of betterScore: an equal score replaces the best so far
betterScore_orEqual(score, bestScore) == score >= bestScore

\* line 85: score > bestScore
betterScore(score, bestScore) == score > bestScore

\* one iteration of the start scan, lines 77-88, for the probe i: the pair
\* <<bestStart, bestScore>> after it, from the pair best before it
scanProbe(data, validEnd, maxStartIndex, i, best) ==
    LET candidateStart == findZeroCrossing(data, i, startWindow)
    IN  IF candidateStart >= maxStartIndex THEN best
        ELSE LET score == calculateCorrelation(data, candidateStart, validEnd,
                                               correlationWindow)
             IN  IF betterScore(score, best[2]) THEN <<candidateStart, score>>
                 ELSE best

\* the iterations of the start scan for the probes lo * searchStep, ...,
\* (hi - 1) * searchStep, in this order, from the pair best.  The range is
\* halved to keep the evaluation depth logarithmic, as in zeroCrossingScan.
RECURSIVE scanProbes(_, _, _, _, _, _, _)
scanProbes(data, validEnd, searchStep, maxStartIndex, lo, hi, best) ==
    IF lo >= hi THEN best
    ELSE IF hi = lo + 1
    THEN scanProbe(data, validEnd, maxStartIndex, lo * searchStep, best)
    ELSE LET mid == (lo + hi) \div 2
             left == scanProbes(data, validEnd, searchStep, maxStartIndex, lo, mid, best)
         IN  IF left = best
             THEN scanProbes(data, validEnd, searchStep, maxStartIndex, mid, hi, best)
             ELSE scanProbes(data, validEnd, searchStep, maxStartIndex, mid, hi, left)

\* the start scan, lines 70-89: for (i = 0; i < maxStartIndex; i += searchStep)
\* from bestStart = 0 and bestScore = -1; the pair <<bestStart, bestScore>>
startScan(data, validEnd, searchStep, maxStartIndex) ==
    LET iterations == IF maxStartIndex <= 0 THEN 0
                      ELSE (maxStartIndex + searchStep - 1) \div searchStep
        first == <<0, -ScoreDen>>
    IN  scanProbes(data, validEnd, searchStep, maxStartIndex, 0, iterations, first)

\* the mutant of candidateEndRegions: the first probe 1000 samples before the end
candidateEndRegions_farProbe(len) ==
    SelectSeq(<<len - 1000, Floor075(len), Floor05(len)>>,
              LAMBDA idx : idx > minRegionIndex)

\* lines 51-55
candidateEndRegions(len) ==
    SelectSeq(<<len - 100, Floor075(len), Floor05(len)>>,
              LAMBDA idx : idx > minRegionIndex)

\* the mutant of tooCloseToStart: the floor of the probes used for the end
tooCloseToStart_lowFloor(validEnd) == validEnd < minRegionIndex

\* line 64: validEnd < 44100 / 2
tooCloseToStart(validEnd) == validEnd < minValidEnd

\* the mutant of maxStartIndexOf: no minimum loop length
maxStartIndexOf_noMinimum(validEnd) == validEnd

\* line 74
maxStartIndexOf(validEnd) == validEnd - minLoopLength

\* the mutant of exceedsThreshold: every best score is accepted
exceedsThreshold_any(bestScore) == bestScore > -ScoreDen

\* line 91: bestScore > 60, on the unrounded score
exceedsThreshold(bestScore) == bestScore > scoreThreshold * ScoreDen

\* the body of the forEach callback, lines 59-100, for one region:
\* the pair <<points, idCounter>> after the region
processRegion(data, regionEndTarget, pts, idCounter) ==
    LET validEnd == findZeroCrossing(data, regionEndTarget, windowSearch)
    IN  IF tooCloseToStart(validEnd) THEN <<pts, idCounter>>
        ELSE LET searchStep == Max(10, validEnd \div 100)
                 maxStartIndex == maxStartIndexOf(validEnd)
                 best == startScan(data, validEnd, searchStep, maxStartIndex)
             IN  IF exceedsThreshold(best[2])
                 THEN <<Append(pts, [id |-> idCounter,
                                     start |-> best[1],
                                     end |-> validEnd,
                                     score |-> RoundScore(best[2]),
                                     name |-> idCounter + 1]),
                        idCounter + 1>>
                 ELSE <<pts, idCounter>>

RECURSIVE forEachRegion(_, _, _, _, _)
forEachRegion(data, regions, k, pts, idCounter) ==
    IF k > Len(regions) THEN pts
    ELSE LET r == processRegion(data, regions[k], pts, idCounter)
         IN  forEachRegion(data, regions, k + 1, r[1], r[2])

\* Array.prototype.sort with (a, b) => b.score - a.score: a stable sort,
\* here by insertion of each element after the elements it does not beat
RECURSIVE insertByScore(_, _)
insertByScore(sorted, p) ==
    IF sorted = <<>> THEN <<p>>
    ELSE IF p.score > Head(sorted).score THEN <<p>> \o sorted
         ELSE <<Head(sorted)>> \o insertByScore(Tail(sorted), p)

RECURSIVE sortByScore(_, _, _)
sortByScore(pts, k, sorted) ==
    IF k > Len(pts) THEN sorted
    ELSE sortByScore(pts, k + 1, insertByScore(sorted, pts[k]))

\* the mutant of sortPoints: the list is left in the order of the pushes
sortPoints_unsorted(pts) == pts

sortPoints(pts) == sortByScore(pts, 1, <<>>)

detectLoopPoints(buf) ==
    LET data == getChannelData(buf, 0)
        len == data.len
        pts == forEachRegion(data, candidateEndRegions(len), 1, <<>>, 1)
        sorted == sortPoints(pts)
    IN  SubSeq(sorted, 1, Min(maxResults, Len(sorted)))

(***************************************************************************)
(* src/services/wavWriter.ts                                               *)
(*                                                                         *)
(* An ArrayBuffer of n bytes is a sequence of n values 0..255; the byte at *)
(* offset o of the code is element o + 1.                                  *)
(***************************************************************************)
Pow256(k) == 256 ^ k

\* byte k (0 = least significant) of the two's-complement image of v:
\* what ToUint16 / ToUint32 leave of an integer v, negative or not
ByteOf(v, k) == (v \div Pow256(k)) % 256

setUint8(view, offset, v) == [view EXCEPT ![offset + 1] = ByteOf(v, 0)]

\* DataView.setUint16(offset, v, true) and setUint32(offset, v, true)
setUint16(view, offset, v) ==
    [view EXCEPT ![offset + 1] = ByteOf(v, 0), ![offset + 2] = ByteOf(v, 1)]

setUint32(view, offset, v) ==
    [view EXCEPT ![offset + 1] = ByteOf(v, 0), ![offset + 2] = ByteOf(v, 1),
                 ![offset + 3] = ByteOf(v, 2), ![offset + 4] = ByteOf(v, 3)]

\* charCodeAt of the characters of the four chunk tags
tagRIFF == <<82, 73, 70, 70>>
tagWAVE == <<87, 65, 86, 69>>
tagFmt == <<102, 109, 116, 32>>
tagData == <<100, 97, 116, 97>>
tagSmpl == <<115, 109, 112, 108>>

RECURSIVE writeStringFrom(_, _, _, _)
writeStringFrom(view, offset, string, i) ==
    IF i >= Len(string) THEN view
    ELSE writeStringFrom(setUint8(view, offset + i, string[i + 1]), offset, string, i + 1)

writeString(view, offset, string) == writeStringFrom(view, offset, string, 0)

\* trunc(k * m / SampleScale) for m < 2^15, without leaving 32 bits
MulTrunc(k, m) ==
    LET a == Abs(k)
        q == (a \div SampleScale) * m + ((a % SampleScale) * m) \div SampleScale
    IN  IF k < 0 THEN -q ELSE q

\* storing a number into an Int16Array element: truncated (by MulTrunc),
\* then reduced modulo 2^16 into -32768..32767
ToInt16(v) == ((v + 32768) % 65536) - 32768

\* the mutant of clampSample: no clamping
clampSample_none(sample) == sample

\* Math.max(-1, Math.min(1, sample))
clampSample(sample) == Max(-SampleScale, Min(SampleScale, sample))

\* lines 23-24: the Int16Array element stored for a sample
pcmOfSample(sample) ==
    LET s == clampSample(sample)
    IN  ToInt16(IF s < 0 THEN MulTrunc(s, 32768) ELSE MulTrunc(s, 32767))

\* the mutant of interleaveChannels: channel after channel instead of frame
\* after frame
RECURSIVE interleaveChannels_planar(_, _, _, _)
interleaveChannels_planar(buf, data, i, channel) ==
    IF channel >= buf.numberOfChannels THEN data
    ELSE interleaveChannels_planar(
             buf,
             [data EXCEPT ![channel * buf.length + i] =
                              pcmOfSample(At(getChannelData(buf, channel), i))],
             i, channel + 1)

\* lines 19-26, the two nested loops on the Int16Array data (indices from 0)
RECURSIVE interleaveChannels(_, _, _, _)
interleaveChannels(buf, data, i, channel) ==
    IF channel >= buf.numberOfChannels THEN data
    ELSE interleaveChannels(
             buf,
             [data EXCEPT ![i * buf.numberOfChannels + channel] =
                              pcmOfSample(At(getChannelData(buf, channel), i))],
             i, channel + 1)

RECURSIVE interleaveFrames(_, _, _)
interleaveFrames(buf, data, i) ==
    IF i >= buf.length THEN data
    ELSE interleaveFrames(buf, interleaveChannels(buf, data, i, 0), i + 1)

interleave(buf) ==
    interleaveFrames(buf, [k \in 0..(buf.length * buf.numberOfChannels - 1) |-> 0], 0)

\* the mutant of pcmBytes: most significant byte first
pcmBytes_bigEndian(data, n) ==
    [b \in 1..(2 * n) |-> ByteOf(data[(b - 1) \div 2], 1 - ((b - 1) % 2))]

\* new Uint8Array(data.buffer): the bytes of the Int16Array in the byte
\* order of the host, little-endian on every platform the application runs on
pcmBytes(data, n) ==
    [b \in 1..(2 * n) |-> ByteOf(data[(b - 1) \div 2], (b - 1) % 2)]

\* targetArray.set(pcmData, pos)
setBytes(view, bytes, pos) ==
    [b \in 1..Len(view) |->
        IF b > pos /\ b <= pos + Len(bytes) THEN bytes[b - pos] ELSE view[b]]

smplChunkSizeOf(lp) == IF lp # <<>> THEN 36 + 24 ELSE 0

\* the mutant of fileSizeOf: the smpl chunk is counted whether or not a loop
\* is supplied
fileSizeOf_alwaysSmpl(buf, lp) ==
    4 + (8 + 16) + (8 + buf.length * buf.numberOfChannels * 2) + (8 + 36 + 24)

fileSizeOf(buf, lp) ==
    LET dataChunkSize == buf.length * buf.numberOfChannels * 2
        fmtChunkSize == 16
        smplChunkSize == smplChunkSizeOf(lp)
    IN  4 + (8 + fmtChunkSize) + (8 + dataChunkSize)
          + (IF lp # <<>> THEN 8 + smplChunkSize ELSE 0)

\* the mutant of writeRiffHeader: the size field holds the whole file length
writeRiffHeader_wholeLength(view, fileSize) ==
    writeString(setUint32(writeString(view, 0, tagRIFF), 4, fileSize + 8), 8, tagWAVE)

\* lines 43-46
writeRiffHeader(view, fileSize) ==
    writeString(setUint32(writeString(view, 0, tagRIFF), 4, fileSize), 8, tagWAVE)

\* the mutant of writeFmtChunk: the byte rate counts one byte per sample
writeFmtChunk_halfByteRate(view, buf) ==
    LET numChannels == buf.numberOfChannels
        sampleRate == buf.sampleRate
        v1 == writeString(view, 12, tagFmt)
        v2 == setUint32(v1, 16, 16)
        v3 == setUint16(v2, 20, 1)
        v4 == setUint16(v3, 22, numChannels)
        v5 == setUint32(v4, 24, sampleRate)
        v6 == setUint32(v5, 28, sampleRate * numChannels)
        v7 == setUint16(v6, 32, numChannels * 2)
    IN  setUint16(v7, 34, 16)

\* lines 48-56, pos = 12 on entry
writeFmtChunk(view, buf) ==
    LET numChannels == buf.numberOfChannels
        sampleRate == buf.sampleRate
        v1 == writeString(view, 12, tagFmt)
        v2 == setUint32(v1, 16, 16)
        v3 == setUint16(v2, 20, 1)
        v4 == setUint16(v3, 22, numChannels)
        v5 == setUint32(v4, 24, sampleRate)
        v6 == setUint32(v5, 28, sampleRate * numChannels * 2)
        v7 == setUint16(v6, 32, numChannels * 2)
    IN  setUint16(v7, 34, 16)

\* lines 58-66, pos = 36 on entry; pos = 44 + dataChunkSize on exit
writeDataChunk(view, buf) ==
    LET n == buf.length * buf.numberOfChannels
        dataChunkSize == n * 2
        v1 == writeString(view, 36, tagData)
        v2 == setUint32(v1, 40, dataChunkSize)
    IN  setBytes(v2, pcmBytes(interleave(buf), n), 44)

\* lines 69-90, pos on entry is the offset after the data chunk
writeSmplChunk(view, buf, lp, pos) ==
    IF lp = <<>> THEN view
    ELSE LET v1 == writeString(view, pos, tagSmpl)
             v2 == setUint32(v1, pos + 4, smplChunkSizeOf(lp))
             v3 == setUint32(v2, pos + 8, 0)
             v4 == setUint32(v3, pos + 12, 0)
             v5 == setUint32(v4, pos + 16, 1000000000 \div buf.sampleRate)
             v6 == setUint32(v5, pos + 20, 60)
             v7 == setUint32(v6, pos + 24, 0)
             v8 == setUint32(v7, pos + 28, 0)
             v9 == setUint32(v8, pos + 32, 0)
             v10 == setUint32(v9, pos + 36, 1)
             v11 == setUint32(v10, pos + 40, 0)
             l1 == setUint32(v11, pos + 44, 0)
             l2 == setUint32(l1, pos + 48, 0)
             l3 == setUint32(l2, pos + 52, lp[1].start)
             l4 == setUint32(l3, pos + 56, lp[1].end)
             l5 == setUint32(l4, pos + 60, 0)
         IN  setUint32(l5, pos + 64, 0)

exportWavWithSmpl(buf, lp) ==
    LET fileSize == fileSizeOf(buf, lp)
        arrayBuffer == [b \in 1..(fileSize + 8) |-> 0]
        dataChunkSize == buf.length * buf.numberOfChannels * 2
        v1 == writeRiffHeader(arrayBuffer, fileSize)
        v2 == writeFmtChunk(v1, buf)
        v3 == writeDataChunk(v2, buf)
    IN  writeSmplChunk(v3, buf, lp, 44 + dataChunkSize)

(***************************************************************************)
(* src/components/WaveformEditor.tsx: the drag handlers of the editor and  *)
(* the loop the host holds for a short file                                *)
(***************************************************************************)
CanvasWidth == 2^5           \* rect.width, in pixels
dragThreshold == 10
minDragGap == 100

\* loadItemForEditing, line 337: the loop of a file of at most 0.5 s
fallbackLoop(buf) ==
    [id |-> 1, start |-> 0, end |-> buf.length - 1, score |-> 100, name |-> 0]

\* buffer.duration > 0.5, with duration = length / sampleRate
durationOverHalfSecond(buf) == 2 * buf.length > buf.sampleRate

\* lines 116-124: which handle a press at pixel x grabs; |x - startX| < 10
\* with startX = start / totalSamples * width, compared without division
grabbedHandle(buf, lp, x) ==
    LET totalSamples == buf.length
        width == CanvasWidth
    IN  IF Abs(x * totalSamples - lp.start * width) < dragThreshold * totalSamples
        THEN "start"
        ELSE IF Abs(x * totalSamples - lp.end * width) < dragThreshold * totalSamples
        THEN "end"
        ELSE "none"

\* the mutant of draggedLoop: the score is reset by the edit
draggedLoop_rescored(buf, lp, handle, x) ==
    LET xc == Max(0, Min(x, CanvasWidth))
        sample == (xc * buf.length) \div CanvasWidth
    IN  IF handle = "start"
        THEN [lp EXCEPT !.start = Min(sample, lp.end - minDragGap), !.score = 0]
        ELSE [lp EXCEPT !.end = Max(sample, lp.start + minDragGap), !.score = 0]

\* the mutant of draggedLoop: the handle follows the pointer without a gap
draggedLoop_noGap(buf, lp, handle, x) ==
    LET xc == Max(0, Min(x, CanvasWidth))
        sample == (xc * buf.length) \div CanvasWidth
    IN  IF handle = "start"
        THEN [lp EXCEPT !.start = sample]
        ELSE [lp EXCEPT !.end = sample]

\* lines 135-145: the loop after a move to pixel x while dragging handle
draggedLoop(buf, lp, handle, x) ==
    LET xc == Max(0, Min(x, CanvasWidth))
        sample == (xc * buf.length) \div CanvasWidth
    IN  IF handle = "start"
        THEN [lp EXCEPT !.start = Min(sample, lp.end - minDragGap)]
        ELSE [lp EXCEPT !.end = Max(sample, lp.start + minDragGap)]

\* updateActiveLoop, line 442: the loops of the active item after an edit
updateActiveLoop(pts, newLoop) ==
    [k \in 1..Len(pts) |-> IF pts[k].id = newLoop.id THEN newLoop ELSE pts[k]]

\* line 251: loopPoints.find(lp => lp.id === selectedLoopId), <<>> for none
activeLoopOf(pts, selectedLoopId) ==
    LET found == SelectSeq(pts, LAMBDA lp : lp.id = selectedLoopId)
    IN  IF found = <<>> THEN <<>> ELSE <<found[1]>>

\* lines 345 and 544: points[0] of a list, <<>> for an empty list
firstLoopOf(pts) == IF pts = <<>> THEN <<>> ELSE <<pts[1]>>

(***************************************************************************)
(* Inputs of the detector                                                  *)
(***************************************************************************)
MaxShortSteps == 20          \* short buffers: lengths 1 + 1050 k, k <= this
MaxAmpShift == 1             \* square-wave amplitudes 2^-3 .. 2^-(3 + this)

Amp(k) == SampleScale \div (2 ^ (3 + k))

\* a mono 44100 Hz buffer with channel 0 = wave
MonoBuffer(len, wave) ==
    [length |-> len, sampleRate |-> 44100, numberOfChannels |-> 1,
     channels |-> <<wave>>]

Silence(len) == MonoBuffer(len, <<[upto |-> len, half |-> 0, amp |-> 0]>>)

Square(len, half, amp) == MonoBuffer(len, <<[upto |-> len, half |-> half, amp |-> amp]>>)

\* a square wave whose amplitude changes from amp1 to amp2 at index cut
TwoLevel(len, cut, half, amp1, amp2) ==
    MonoBuffer(len, <<[upto |-> cut, half |-> half, amp |-> amp1],
                      [upto |-> len, half |-> half, amp |-> amp2]>>)

ShortLengths == {1 + 1050 * k : k \in 0..MaxShortSteps} \cup {22049, 22050}

WithRate(buf, rate) == [buf EXCEPT !.sampleRate = rate]

ShortBuffers ==
    {Silence(len) : len \in ShortLengths}
    \cup {Square(len, 50, Amp(0)) : len \in ShortLengths}
    \cup {WithRate(Square(len, 50, Amp(0)), 8000) : len \in ShortLengths}
    \cup {Square(len, 700, SampleScale) : len \in ShortLengths}

\* the two levels differ by 13000 / 65536, between 0.1975 and 0.2: the best
\* score of the only region lies between 60 and 60.5
BarelyAccepted == TwoLevel(22600, 22050, 50, Amp(1) + 13000, Amp(1))

LongBuffers ==
    {Silence(88200), Silence(22150), Square(30000, 50, SampleScale)}
    \cup {Square(88200, 50, Amp(k)) : k \in 0..MaxAmpShift}
    \cup {TwoLevel(40000, 38800, 50, Amp(k), Amp(k + 1)) : k \in 0..MaxAmpShift}
    \cup {TwoLevel(40000, 27500, 50, Amp(0), Amp(1)),
          TwoLevel(22600, 22050, 50, Amp(0), Amp(1)),
          TwoLevel(22600, 22000, 50, Amp(0), Amp(1)),
          BarelyAccepted}

\* buf with further channels appended after its own
WithChannels(buf, waves) ==
    [buf EXCEPT !.numberOfChannels = Len(buf.channels) + Len(waves),
                !.channels = buf.channels \o waves]

\* buffers that share channel 0 with a mono 44100 Hz buffer and differ from it
\* in the other channels or in the sample rate
ChannelRateVariants ==
    LET accepted == TwoLevel(22600, 22050, 50, Amp(0), Amp(1))
        rejected == Silence(22150)
        silent == <<[upto |-> 22600, half |-> 0, amp |-> 0]>>
        other == <<[upto |-> 22600, half |-> 70, amp |-> Amp(0)]>>
    IN  {WithChannels(accepted, <<silent>>),
         WithRate(accepted, 8000),
         WithRate(WithChannels(accepted, <<other, silent>>), 96000),
         WithRate(WithChannels(rejected, accepted.channels), 48000)}

DetectBuffers == ShortBuffers \cup LongBuffers \cup ChannelRateVariants

(***************************************************************************)
(* Inputs of the writer                                                    *)
(***************************************************************************)
MaxFrames == 2
MaxChannels == 2

\* channel contents: alternating a, -a, a, ... for a = 1.0, 1.5, -0.5 and
\* -3 * 2^-16, and silence
Alternating(amp) == <<[upto |-> MaxFrames + 1, half |-> 1, amp |-> amp]>>

WavShapes ==
    {Alternating(SampleScale),
     Alternating(3 * (SampleScale \div 2)),
     Alternating(-(SampleScale \div 2)),
     Alternating(-3),
     <<[upto |-> MaxFrames + 1, half |-> 0, amp |-> 0]>>}

SampleRates == {44100, 48000}

ChannelLists == UNION {[1..c -> WavShapes] : c \in 1..MaxChannels}

WavBuffers ==
    {[length |-> n, sampleRate |-> r, numberOfChannels |-> Len(chs), channels |-> chs] :
        n \in 1..MaxFrames, r \in SampleRates, chs \in ChannelLists}

(***************************************************************************)
(* The detector as a state machine: one call of detectLoopPoints           *)
(***************************************************************************)
IdleBuffer == Silence(1)

DetectInit ==
    /\ ScanIdle
    /\ AppIdle
    /\ buffer \in DetectBuffers
    /\ points = <<>>
    /\ dpc = "idle"
    /\ activeBuffer = IdleBuffer
    /\ loopPoint = <<>>
    /\ isDragging = "none"
    /\ blob = <<>>
    /\ written = <<>>

Detect ==
    /\ dpc = "idle"
    /\ points' = detectLoopPoints(buffer)
    /\ dpc' = "done"
    /\ UNCHANGED <<buffer, activeBuffer, loopPoint, isDragging, blob, written, scanVars, appVars>>

DetectNext == Detect

SpecDetect == DetectInit /\ [][DetectNext]_vars

(***************************************************************************)
(* The editor and the writer: a short file is loaded (the host holds the   *)
(* fallback loop), its loop is dragged, and the file is exported           *)
(***************************************************************************)
Pixels == 0..CanvasWidth

\* the mutant of loadedLoops: the fallback loop is substituted whenever the
\* file has no detected loop
loadedLoops_neverEmpty(buf) ==
    LET detected == IF durationOverHalfSecond(buf) THEN detectLoopPoints(buf) ELSE <<>>
    IN  IF detected = <<>> THEN <<fallbackLoop(buf)>> ELSE detected

\* loadItemForEditing, lines 332-345: the loops of a freshly loaded file, the
\* first of which is the selected (active) one
loadedLoops(buf) ==
    IF durationOverHalfSecond(buf) THEN detectLoopPoints(buf) ELSE <<fallbackLoop(buf)>>

\* exportBatchZip, lines 540-542: the loops found for an item that has none
\* yet; the fallback loop is named "Short" here (name -1)
batchDetected(buf) ==
    IF durationOverHalfSecond(buf) THEN detectLoopPoints(buf)
    ELSE <<[fallbackLoop(buf) EXCEPT !.name = -1]>>

Init ==
    /\ ScanIdle
    /\ AppIdle
    /\ activeBuffer \in WavBuffers
    /\ points = loadedLoops(activeBuffer)
    /\ loopPoint = firstLoopOf(points)
    /\ isDragging = "none"
    /\ blob = <<>>
    /\ written = <<>>
    /\ buffer = IdleBuffer
    /\ dpc = "idle"

\* a press that grabs no handle seeks (lines 126-128) and leaves the loop,
\* the drag state and the buffer as they are
handleMouseDown(x) ==
    /\ loopPoint # <<>>
    /\ isDragging' = LET h == grabbedHandle(activeBuffer, loopPoint[1], x)
                     IN  IF h = "none" THEN isDragging ELSE h
    /\ UNCHANGED <<activeBuffer, loopPoint, blob, written, buffer, points, dpc, scanVars, appVars>>

handleMouseMove(x) ==
    /\ isDragging # "none"
    /\ loopPoint # <<>>
    /\ LET newLoop == draggedLoop(activeBuffer, loopPoint[1], isDragging, x)
       IN  /\ points' = updateActiveLoop(points, newLoop)
           /\ loopPoint' = activeLoopOf(points', newLoop.id)
    /\ UNCHANGED <<activeBuffer, isDragging, blob, written, buffer, dpc, scanVars, appVars>>

handleMouseUp ==
    /\ isDragging' = "none"
    /\ UNCHANGED <<activeBuffer, loopPoint, blob, written, buffer, points, dpc, scanVars, appVars>>

\* exportSingle, lines 502-511: the writer is called with the active loop
exportSingle ==
    /\ loopPoint # <<>>
    /\ blob' = exportWavWithSmpl(activeBuffer, loopPoint)
    /\ written' = <<loopPoint>>
    /\ UNCHANGED <<activeBuffer, loopPoint, isDragging, buffer, points, dpc, scanVars, appVars>>

\* a call of the writer without a loop: exportWavWithSmpl(buffer, null)
exportNoLoop ==
    /\ blob' = exportWavWithSmpl(activeBuffer, <<>>)
    /\ written' = <<(<<>>)>>
    /\ UNCHANGED <<activeBuffer, loopPoint, isDragging, buffer, points, dpc, scanVars, appVars>>

Next ==
    \/ \E x \in Pixels : handleMouseDown(x)
    \/ \E x \in Pixels : handleMouseMove(x)
    \/ handleMouseUp
    \/ exportSingle
    \/ exportNoLoop

Spec == Init /\ [][Next]_vars

(***************************************************************************)
(* The host: a pending item is loaded for editing (loadItemForEditing) or  *)
(* reached by a batch export (exportBatchZip) while it has no loops yet;   *)
(* a loaded item is edited with the drag handlers.  buffer is the decoded  *)
(* file of the item, dpc its progress ("pending", "processed" once loaded, *)
(* "batched" once the batch export has chosen its loop), points its        *)
(* loopPoints and loopPoint the active loop or the loop the batch export   *)
(* chose.                                                                  *)
(***************************************************************************)
HostFiles ==
    {Square(len, 50, Amp(0)) : len \in {1, 150, 22050}}
    \cup {WithRate(Square(len, 50, Amp(0)), 8000) : len \in {4000, 21001}}
    \cup {Silence(22150),
          TwoLevel(22600, 22050, 50, Amp(0), Amp(1)),
          TwoLevel(40000, 38800, 50, Amp(0), Amp(1))}

HostInit ==
    /\ ScanIdle
    /\ AppIdle
    /\ buffer \in HostFiles
    /\ dpc = "pending"
    /\ points = <<>>
    /\ loopPoint = <<>>
    /\ activeBuffer = IdleBuffer
    /\ isDragging = "none"
    /\ blob = <<>>
    /\ written = <<>>

\* lines 317-348, for an item that decodes
loadItemForEditing ==
    /\ dpc = "pending"
    /\ activeBuffer' = buffer
    /\ points' = loadedLoops(buffer)
    /\ loopPoint' = firstLoopOf(points')
    /\ dpc' = "processed"
    /\ UNCHANGED <<buffer, isDragging, blob, written, scanVars, appVars>>

\* lines 533-544, for an item that is not the active one, decodes and has
\* no loops yet: loopToProcess = detected[0] || null
batchLoopToProcess ==
    /\ dpc = "pending"
    /\ loopPoint' = firstLoopOf(batchDetected(buffer))
    /\ dpc' = "batched"
    /\ UNCHANGED <<buffer, points, activeBuffer, isDragging, blob, written, scanVars, appVars>>

HostNext ==
    \/ loadItemForEditing
    \/ batchLoopToProcess
    \/ dpc = "processed" /\ \E x \in Pixels : handleMouseDown(x)
    \/ dpc = "processed" /\ \E x \in Pixels : handleMouseMove(x)
    \/ dpc = "processed" /\ handleMouseUp

SpecHost == HostInit /\ [][HostNext]_vars

(***************************************************************************)
(* The start scan of one end region, lines 59-99, one probe per step.      *)
(* scan holds the locals validEnd, searchStep, maxStartIndex, i, bestStart *)
(* and bestScore, the number of probes made and, for the probes that were  *)
(* not skipped, the probe, its snapped start and its score (seen); points  *)
(* receives what the region pushes.                                        *)
(***************************************************************************)
\* a buffer whose only sign changes are at 24060 (magnitude 2^-3) and at
\* 25050 (magnitude 2^-4): the 75% probe 25050 stays there, and the last start
\* probe, 24000, snaps to 24060, which is not below 25050 - 1000
SkippedProbe ==
    MonoBuffer(33400, <<[upto |-> 24061, half |-> 0, amp |-> Amp(0)],
                        [upto |-> 25051, half |-> 0, amp |-> -Amp(1)],
                        [upto |-> 33400, half |-> 0, amp |-> Amp(0)]>>)

ScanBuffers ==
    {Silence(88200),
     SkippedProbe,
     Square(88200, 50, Amp(0)),
     Square(30000, 50, SampleScale),
     BarelyAccepted,
     TwoLevel(22600, 22050, 50, Amp(0), Amp(1)),
     TwoLevel(40000, 27500, 50, Amp(0), Amp(1)),
     TwoLevel(40000, 38800, 50, Amp(0), Amp(1))}

\* lines 60-74: the locals of the callback for the region regionEndTarget
\* when the scan starts
scanOfRegion(data, regionEndTarget) ==
    LET validEnd == findZeroCrossing(data, regionEndTarget, windowSearch)
    IN  [validEnd |-> validEnd,
         searchStep |-> Max(10, validEnd \div 100),
         maxStartIndex |-> maxStartIndexOf(validEnd),
         i |-> 0,
         bestStart |-> 0,
         bestScore |-> -ScoreDen,
         probes |-> 0,
         seen |-> <<>>,
         pc |-> "scanning"]

ScanInit ==
    /\ AppIdle
    /\ zc = <<>>
    /\ buffer \in ScanBuffers
    /\ \E k \in 1..Len(candidateEndRegions(buffer.length)) :
           LET sc == scanOfRegion(getChannelData(buffer, 0),
                                  candidateEndRegions(buffer.length)[k])
           IN  /\ ~tooCloseToStart(sc.validEnd)
               /\ scan = <<sc>>
    /\ points = <<>>
    /\ dpc = "idle"
    /\ activeBuffer = IdleBuffer
    /\ loopPoint = <<>>
    /\ isDragging = "none"
    /\ blob = <<>>
    /\ written = <<>>

\* one iteration of the for loop of lines 76-89
ScanStep ==
    /\ scan # <<>>
    /\ scan[1].pc = "scanning"
    /\ scan[1].i < scan[1].maxStartIndex
    /\ LET sc == scan[1]
           data == getChannelData(buffer, 0)
           candidateStart == findZeroCrossing(data, sc.i, startWindow)
           best == scanProbe(data, sc.validEnd, sc.maxStartIndex, sc.i,
                             <<sc.bestStart, sc.bestScore>>)
       IN  scan' = <<[sc EXCEPT
                        !.i = sc.i + sc.searchStep,
                        !.bestStart = best[1],
                        !.bestScore = best[2],
                        !.probes = sc.probes + 1,
                        !.seen = IF candidateStart >= sc.maxStartIndex THEN sc.seen
                                 ELSE Append(sc.seen,
                                        [probe |-> sc.i,
                                         start |-> candidateStart,
                                         score |-> calculateCorrelation(
                                                       data, candidateStart, sc.validEnd,
                                                       correlationWindow)])]>>
    /\ UNCHANGED <<buffer, points, dpc, activeBuffer, loopPoint, isDragging, blob,
                   written, zc, appVars>>

\* the loop has ended: lines 91-98 push the candidate of the region, the
\* first of the call here (idCounter 1)
ScanEnd ==
    /\ scan # <<>>
    /\ scan[1].pc = "scanning"
    /\ scan[1].i >= scan[1].maxStartIndex
    /\ scan' = <<[scan[1] EXCEPT !.pc = "done"]>>
    /\ points' = IF exceedsThreshold(scan[1].bestScore)
                 THEN <<[id |-> 1,
                         start |-> scan[1].bestStart,
                         end |-> scan[1].validEnd,
                         score |-> RoundScore(scan[1].bestScore),
                         name |-> 2]>>
                 ELSE <<>>
    /\ UNCHANGED <<buffer, dpc, activeBuffer, loopPoint, isDragging, blob, written,
                   zc, appVars>>

ScanNext == ScanStep \/ ScanEnd

SpecScan == ScanInit /\ [][ScanNext]_vars

(***************************************************************************)
(* One call of findZeroCrossing on a short Float32Array                    *)
(***************************************************************************)
MaxCrossLen == 4             \* arrays of 1 .. this many samples
MaxCrossWindow == 2          \* windowSize 1 .. this

\* sample values -1.0, -0.5, 0, 0.25 and 1.0
CrossValues ==
    {-SampleScale, -(SampleScale \div 2), 0, SampleScale \div 4, SampleScale}

\* the mono buffer whose channel 0 holds the samples vals
ArrayBuffer(vals) ==
    MonoBuffer(Len(vals),
               [k \in 1..Len(vals) |-> [upto |-> k, half |-> 0, amp |-> vals[k]]])

CrossBuffers ==
    {ArrayBuffer(vals) : vals \in UNION {[1..n -> CrossValues] : n \in 1..MaxCrossLen}}

CrossInit ==
    /\ AppIdle
    /\ zc = <<>>
    /\ scan = <<>>
    /\ buffer \in CrossBuffers
    /\ points = <<>>
    /\ dpc = "idle"
    /\ activeBuffer = IdleBuffer
    /\ loopPoint = <<>>
    /\ isDragging = "none"
    /\ blob = <<>>
    /\ written = <<>>

callFindZeroCrossing(target, windowSize) ==
    /\ zc = <<>>
    /\ zc' = <<[target |-> target,
                windowSize |-> windowSize,
                result |-> findZeroCrossing(getChannelData(buffer, 0), target,
                                            windowSize)]>>
    /\ UNCHANGED <<buffer, points, dpc, activeBuffer, loopPoint, isDragging, blob,
                   written, scan, appVars>>

CrossNext ==
    \E target \in 0..(buffer.length - 1), windowSize \in 1..MaxCrossWindow :
        callFindZeroCrossing(target, windowSize)

SpecCross == CrossInit /\ [][CrossNext]_vars

(***************************************************************************)
(* src/components/WaveformEditor.tsx, App: the batch list.  Files are      *)
(* uploaded, items are clicked (loadItemForEditing, whose decode resolves  *)
(* later), removed, edited in the editor and exported as one archive.      *)
(* batchItems is the list of items [id, file, status, loopPoints,          *)
(* selectedLoopId] (selectedLoopId 0 for null), activeItemId the id of the *)
(* active item (0 for null), activeBuffer the decoded audio on display     *)
(* (NullBuffer for null), inflight the calls of loadItemForEditing that    *)
(* wait for their decode, zipJob the running batch export.                 *)
(***************************************************************************)
MaxItems == 2                \* items in the batch list
MaxInflight == 2             \* calls of loadItemForEditing awaiting decodeFile

NullBuffer == [length |-> 0, sampleRate |-> 0, numberOfChannels |-> 0, channels |-> <<>>]

\* a file with two detected loops, a file with none and a file that does not
\* decode (files of at most 0.5 s are loaded and batched in SpecHost)
AppFiles == {"loops", "silent", "corrupt"}

\* decodeFile, lines 266-276: the audio of a file; a corrupt file rejects
decodes(file) == file # "corrupt"

decodeFile(file) ==
    CASE file = "loops" -> TwoLevel(40000, 38800, 50, Amp(0), Amp(1))
      [] file = "silent" -> Silence(22150)
      [] OTHER -> NullBuffer

\* lines 332-338 (loaded) and 540-542 (batch) for the audio of a file
detectedLoopsOf(buf) == [loaded |-> loadedLoops(buf), batch |-> batchDetected(buf)]

\* Math.random().toString(36): an id no item, pending load or active id holds
ItemIds == 1..(MaxItems + MaxInflight + 1)
usedIds ==
    {batchItems[k].id : k \in 1..Len(batchItems)} \cup {job.id : job \in inflight}
        \cup {activeItemId}

RECURSIVE freshIds(_, _)
freshIds(free, n) ==
    IF n = 0 THEN <<>>
    ELSE LET id == CHOOSE i \in free : \A j \in free : i <= j
         IN  <<id>> \o freshIds(free \ {id}, n - 1)

\* line 250: batchItems.find(i => i.id === activeItemId), <<>> for none
activeItem ==
    LET found == SelectSeq(batchItems, LAMBDA i : i.id = activeItemId)
    IN  IF found = <<>> THEN <<>> ELSE <<found[1]>>

\* line 251
activeLoop ==
    IF activeItem = <<>> THEN <<>>
    ELSE activeLoopOf(activeItem[1].loopPoints, activeItem[1].selectedLoopId)

\* line 734: the editor and the loop buttons are rendered
editorShown == activeItem # <<>> /\ activeBuffer # NullBuffer

\* lines 341-347: setBatchItems(prev => prev.map(i => i.id === id ? ... : i))
itemsProcessed(items, id, pts, selectedLoopId) ==
    [k \in 1..Len(items) |->
        IF items[k].id = id
        THEN [items[k] EXCEPT !.status = "processed", !.loopPoints = pts,
                              !.selectedLoopId = selectedLoopId]
        ELSE items[k]]

\* line 352
itemsFailed(items, id) ==
    [k \in 1..Len(items) |->
        IF items[k].id = id THEN [items[k] EXCEPT !.status = "error"] ELSE items[k]]

\* lines 455-457
itemsSelected(items, id, loopId) ==
    [k \in 1..Len(items) |->
        IF items[k].id = id THEN [items[k] EXCEPT !.selectedLoopId = loopId] ELSE items[k]]

\* lines 440-446
itemsEdited(items, id, newLoop) ==
    [k \in 1..Len(items) |->
        IF items[k].id = id
        THEN [items[k] EXCEPT !.loopPoints = updateActiveLoop(items[k].loopPoints, newLoop)]
        ELSE items[k]]

\* the mutant of selectedAfterLoad: loop 1 is selected
selectedAfterLoad_one(pts) == 1

\* line 345: points.length > 0 ? points[0].id : null
selectedAfterLoad(pts) == IF Len(pts) > 0 THEN pts[1].id ELSE 0

\* lines 317-326 of loadItemForEditing, up to the await of decodeFile; item
\* is the item the call holds (itemOverride or the one found in batchItems)
\* call tells apart the pending calls made for one item in one state of it
loadJob(item) ==
    LET detect == item.status = "pending" \/ Len(item.loopPoints) = 0
        same == {job \in inflight : job.id = item.id /\ job.detect = detect}
    IN  [id |-> item.id, file |-> item.file, detect |-> detect,
         call |-> CHOOSE c \in 1..MaxInflight :
                     /\ \A job \in same : job.call # c
                     /\ \A d \in 1..(c - 1) : \E job \in same : job.call = d]

AppInit ==
    /\ ScanIdle
    /\ batchItems = <<>>
    /\ activeItemId = 0
    /\ inflight = {}
    /\ zipJob = <<>>
    /\ loopsOfFile = <<>>
    /\ activeBuffer = NullBuffer
    /\ isDragging = "none"
    /\ points = <<>>
    /\ loopPoint = <<>>
    /\ buffer = IdleBuffer
    /\ dpc = "idle"
    /\ blob = <<>>
    /\ written = <<>>

hostIdle == <<buffer, points, dpc, loopPoint, blob, written, scanVars, loopsOfFile>>

\* what detection gives for a file is a function of the file alone: it is
\* computed once for each file that decodes, before the first upload
DecodableFiles == {f \in AppFiles : decodes(f)}

detectFile(file) ==
    /\ file \in DecodableFiles \ DOMAIN loopsOfFile
    /\ \E buf \in {decodeFile(file)} :
          loopsOfFile' = (file :> detectedLoopsOf(buf)) @@ loopsOfFile
    /\ UNCHANGED <<batchItems, activeItemId, inflight, zipJob, activeBuffer, isDragging,
                   buffer, points, dpc, loopPoint, blob, written, scanVars>>

\* handleFileUpload, lines 280-315
handleFileUpload(files) ==
    /\ DOMAIN loopsOfFile = DecodableFiles
    /\ zipJob = <<>>
    /\ Len(batchItems) + Len(files) <= MaxItems
    /\ activeItemId = 0 => Cardinality(inflight) < MaxInflight
    /\ LET ids == freshIds(ItemIds \ usedIds, Len(files))
           newItems == [k \in 1..Len(files) |->
                          [id |-> ids[k], file |-> files[k], status |-> "pending",
                           loopPoints |-> <<>>, selectedLoopId |-> 0]]
       IN  /\ batchItems' = batchItems \o newItems
           /\ IF activeItemId = 0
              THEN /\ activeBuffer' = NullBuffer
                   /\ activeItemId' = newItems[1].id
                   /\ inflight' = inflight \cup {loadJob(newItems[1])}
              ELSE UNCHANGED <<activeBuffer, activeItemId, inflight>>
    /\ UNCHANGED <<isDragging, zipJob, hostIdle>>

\* a click on an item, line 605: loadItemForEditing(item.id) up to its await
loadItemStart(id) ==
    /\ zipJob = <<>>
    /\ Cardinality(inflight) < MaxInflight
    /\ \E k \in 1..Len(batchItems) :
          /\ batchItems[k].id = id
          /\ inflight' = inflight \cup {loadJob(batchItems[k])}
    /\ activeBuffer' = NullBuffer
    /\ activeItemId' = id
    /\ isDragging' = "none"
    /\ UNCHANGED <<batchItems, zipJob, hostIdle>>

\* loadItemForEditing after its await, lines 328-355
loadItemResume(job) ==
    /\ zipJob = <<>>
    /\ job \in inflight
    /\ inflight' = inflight \ {job}
    /\ IF decodes(job.file)
       THEN /\ activeBuffer' = decodeFile(job.file)
            /\ IF job.detect
               THEN LET pts == loopsOfFile[job.file].loaded
                    IN  batchItems' = itemsProcessed(batchItems, job.id, pts,
                                                     selectedAfterLoad(pts))
               ELSE UNCHANGED batchItems
       ELSE /\ batchItems' = itemsFailed(batchItems, job.id)
            /\ UNCHANGED activeBuffer
    /\ UNCHANGED <<activeItemId, isDragging, zipJob, hostIdle>>

\* handleRemoveItem, lines 358-366
handleRemoveItem(id) ==
    /\ zipJob = <<>>
    /\ \E k \in 1..Len(batchItems) : batchItems[k].id = id
    /\ batchItems' = SelectSeq(batchItems, LAMBDA i : i.id # id)
    /\ IF activeItemId = id
       THEN /\ activeBuffer' = NullBuffer
            /\ activeItemId' = 0
            /\ isDragging' = "none"
       ELSE UNCHANGED <<activeBuffer, activeItemId, isDragging>>
    /\ UNCHANGED <<inflight, zipJob, hostIdle>>

\* the button of line 596: setBatchItems([]); the editor is no longer shown
clearBatchItems ==
    /\ zipJob = <<>>
    /\ batchItems # <<>>
    /\ batchItems' = <<>>
    /\ isDragging' = "none"
    /\ UNCHANGED <<activeBuffer, activeItemId, inflight, zipJob, hostIdle>>

\* selectLoopId, lines 452-458, from a loop button of the active item
selectLoopId(loopId) ==
    /\ zipJob = <<>>
    /\ editorShown
    /\ \E k \in 1..Len(activeItem[1].loopPoints) : activeItem[1].loopPoints[k].id = loopId
    /\ batchItems' = itemsSelected(batchItems, activeItemId, loopId)
    /\ UNCHANGED <<activeBuffer, activeItemId, inflight, isDragging, zipJob, hostIdle>>

AppPixels == {CanvasWidth}

\* handleMouseDown, lines 109-130, in the editor of the active item
editorMouseDown(x) ==
    /\ zipJob = <<>>
    /\ editorShown
    /\ activeLoop # <<>>
    /\ isDragging' = LET h == grabbedHandle(activeBuffer, activeLoop[1], x)
                     IN  IF h = "none" THEN isDragging ELSE h
    /\ UNCHANGED <<batchItems, activeBuffer, activeItemId, inflight, zipJob, hostIdle>>

\* handleMouseMove, lines 132-147, and updateActiveLoop, lines 437-446
editorMouseMove(x) ==
    /\ zipJob = <<>>
    /\ editorShown
    /\ isDragging # "none"
    /\ activeLoop # <<>>
    /\ LET newLoop == draggedLoop(activeBuffer, activeLoop[1], isDragging, x)
       IN  batchItems' = itemsEdited(batchItems, activeItemId, newLoop)
    /\ UNCHANGED <<activeBuffer, activeItemId, inflight, isDragging, zipJob, hostIdle>>

\* handleMouseUp, lines 149-151
editorMouseUp ==
    /\ zipJob = <<>>
    /\ editorShown
    /\ isDragging' = "none"
    /\ UNCHANGED <<batchItems, activeBuffer, activeItemId, inflight, zipJob, hostIdle>>

\* line 563: Math.round((processedCount / batchItems.length) * 100)
progressOf(processedCount, n) == (200 * processedCount + n) \div (2 * n)

\* the mutant of shouldWrite: the writer is called for every decoded item
shouldWrite_always(loopToProcess) == TRUE

\* line 554: bufferToProcess && loopToProcess
shouldWrite(loopToProcess) == loopToProcess # <<>>

\* lines 525-552: the loop chosen for an item whose buffer is at hand
loopToProcessOf(item) ==
    IF item.id = activeItemId /\ activeBuffer # NullBuffer
    THEN activeLoopOf(activeItem[1].loopPoints, item.selectedLoopId)
    ELSE IF item.status = "pending" \/ Len(item.loopPoints) = 0
         THEN firstLoopOf(loopsOfFile[item.file].batch)
         ELSE LET found == activeLoopOf(item.loopPoints, item.selectedLoopId)
              IN  IF found # <<>> THEN found ELSE firstLoopOf(item.loopPoints)

\* exportBatchZip, lines 513-521.  The export reads the batchItems,
\* activeItemId and activeBuffer of the render it was started from, so it is
\* followed from start to end with no other event in between.
exportBatchZip ==
    /\ zipJob = <<>>
    /\ Len(batchItems) # 0
    /\ zipJob' = <<[k |-> 1, processedCount |-> 0, exportProgress |-> 0,
                    calls |-> <<>>, pc |-> "items"]>>
    /\ UNCHANGED <<batchItems, activeBuffer, activeItemId, inflight, isDragging, hostIdle>>

\* one iteration of the loop of lines 524-567
exportBatchItem ==
    /\ zipJob # <<>>
    /\ zipJob[1].pc = "items"
    /\ zipJob[1].k <= Len(batchItems)
    /\ LET job == zipJob[1]
           item == batchItems[job.k]
           inMemory == item.id = activeItemId /\ activeBuffer # NullBuffer
       IN  IF ~inMemory /\ ~decodes(item.file)
           THEN zipJob' = <<[job EXCEPT !.k = job.k + 1]>>
           ELSE LET bufferToProcess == IF inMemory THEN activeBuffer ELSE decodeFile(item.file)
                    loopToProcess == loopToProcessOf(item)
                    call == [id |-> item.id, buffer |-> bufferToProcess, loop |-> loopToProcess]
                IN  zipJob' = <<[job EXCEPT
                        !.k = job.k + 1,
                        !.calls = IF shouldWrite(loopToProcess) THEN Append(job.calls, call)
                                  ELSE job.calls,
                        !.processedCount = job.processedCount + 1,
                        !.exportProgress = progressOf(job.processedCount + 1, Len(batchItems))]>>
    /\ UNCHANGED <<batchItems, activeBuffer, activeItemId, inflight, isDragging, hostIdle>>

\* line 569: zip.generateAsync, once the loop has ended
exportBatchGenerate ==
    /\ zipJob # <<>>
    /\ zipJob[1].pc = "items"
    /\ zipJob[1].k > Len(batchItems)
    /\ zipJob' = <<[zipJob[1] EXCEPT !.pc = "generated"]>>
    /\ UNCHANGED <<batchItems, activeBuffer, activeItemId, inflight, isDragging, hostIdle>>

\* lines 580-583: finally
exportBatchFinally ==
    /\ zipJob # <<>>
    /\ zipJob[1].pc = "generated"
    /\ zipJob' = <<>>
    /\ UNCHANGED <<batchItems, activeBuffer, activeItemId, inflight, isDragging, hostIdle>>

AppNext ==
    \/ \E file \in AppFiles : detectFile(file)
    \/ \E n \in 1..MaxItems : \E files \in [1..n -> AppFiles] : handleFileUpload(files)
    \/ \E id \in ItemIds : loadItemStart(id)
    \/ \E job \in inflight : loadItemResume(job)
    \/ \E id \in ItemIds : handleRemoveItem(id)
    \/ clearBatchItems
    \/ \E loopId \in 1..maxResults : selectLoopId(loopId)
    \/ \E x \in AppPixels : editorMouseDown(x)
    \/ \E x \in AppPixels : editorMouseMove(x)
    \/ editorMouseUp
    \/ exportBatchZip
    \/ exportBatchItem
    \/ exportBatchGenerate
    \/ exportBatchFinally

SpecApp == AppInit /\ [][AppNext]_vars

(***************************************************************************)
(* Reading a byte image back                                               *)
(***************************************************************************)
U8At(image, offset) == image[offset + 1]

U16At(image, offset) == U8At(image, offset) + 256 * U8At(image, offset + 1)

\* a little-endian signed 16-bit value
I16At(image, offset) ==
    LET u == U16At(image, offset) IN IF u >= 32768 THEN u - 65536 ELSE u

\* a little-endian unsigned 32-bit value below 2^31
U32At(image, offset) ==
    U16At(image, offset) + 65536 * U16At(image, offset + 2)

\* the unsigned 32-bit field at offset holds the number v
U32Is(image, offset, v) ==
    /\ v >= 0
    /\ U8At(image, offset + 3) < 128
    /\ U32At(image, offset) = v

TagAt(image, offset, tag) == \A k \in 1..4 : U8At(image, offset + k - 1) = tag[k]

\* the data chunk size of the active buffer and the offset after the data
DataSize == activeBuffer.length * activeBuffer.numberOfChannels * 2
AfterData == 44 + DataSize

\* the sample of frame i, channel c of the active buffer
SampleOf(i, c) == At(getChannelData(activeBuffer, c), i)

FramesAndChannels ==
    (0..(activeBuffer.length - 1)) \X (0..(activeBuffer.numberOfChannels - 1))

Exported == written # <<>>
ExportedWithLoop == written # <<>> /\ written[1] # <<>>
ExportedWithoutLoop == written # <<>> /\ written[1] = <<>>

(***************************************************************************)
(* Claims about detectLoopPoints (specification SpecDetect)                *)
(***************************************************************************)

\* C1: every candidate returned by detectLoopPoints satisfies
\* 0 <= start < end <= frameCount - 1 and end - start >= 1000
C1_CandidateBounds ==
    dpc = "done" =>
        \A k \in 1..Len(points) :
            /\ 0 <= points[k].start
            /\ points[k].start < points[k].end
            /\ points[k].end <= buffer.length - 1
            /\ points[k].end - points[k].start >= 1000

\* a call returned two candidates on the buffer whose 75% region ends just
\* after the amplitude change, where the closest good starts are too close
C1_Witness ==
    /\ dpc = "done"
    /\ buffer = TwoLevel(40000, 27500, 50, Amp(0), Amp(1))
    /\ Len(points) = 2

\* C2: the returned list has at most 3 elements and is ordered by
\* non-increasing emitted score
C2_SortedAtMostThree ==
    dpc = "done" =>
        /\ Len(points) <= 3
        /\ \A k \in 1..(Len(points) - 1) : points[k].score >= points[k + 1].score

\* a returned list whose first element was not the first one pushed, with a
\* strictly lower score behind it
C2_Witness ==
    /\ dpc = "done"
    /\ Len(points) >= 2
    /\ points[1].id # 1
    /\ points[1].score > points[Len(points)].score

\* C3: a buffer of fewer than 22050 frames yields the empty list, whatever
\* its samples and its sample rate
C3_ShortBufferEmpty ==
    (dpc = "done" /\ buffer.length < 22050) => points = <<>>

\* a call on a short 8000 Hz square wave one of whose regions passed the
\* probe filter and was snapped to a crossing
C3_Witness ==
    /\ dpc = "done"
    /\ buffer = WithRate(Square(21001, 50, Amp(0)), 8000)
    /\ candidateEndRegions(buffer.length) # <<>>
    /\ findZeroCrossing(getChannelData(buffer, 0), buffer.length - 100, windowSearch)
           # buffer.length - 100

\* C10 as stated: on 2 s of 44100 Hz mono silence the top end region (probe
\* frameCount - 100 = 88100, snapped within +/-2000) is accepted with score 100
C10_TopRegionAccepted ==
    (dpc = "done" /\ buffer = Silence(88200)) =>
        \E k \in 1..Len(points) :
            /\ Abs(points[k].end - (88200 - 100)) <= windowSearch
            /\ points[k].score = 100

\* C10 amended: on that buffer the top region is not accepted; the list
\* holds the 75% and 50% regions, ends 66150 and 44100, start 0, score 100
C10_SilenceRegions ==
    (dpc = "done" /\ buffer = Silence(88200)) =>
        points = << [id |-> 1, start |-> 0, end |-> 66150, score |-> 100, name |-> 2],
                    [id |-> 2, start |-> 0, end |-> 44100, score |-> 100, name |-> 3] >>

\* the call on the silent 2 s buffer has returned
C10_Witness ==
    /\ dpc = "done"
    /\ buffer = Silence(88200)
    /\ points # <<>>

(***************************************************************************)
(* Claims about exportWavWithSmpl (specification Spec)                     *)
(***************************************************************************)

\* C5: the image has outerSize + 8 bytes, outerSize = 4 + (8 + 16)
\* + (8 + frameCount * channels * 2) + (8 + 60 with a loop, else 0), and
\* the 32-bit field at offset 4 holds outerSize
C5_DeclaredSize ==
    Exported =>
        LET outerSize == 4 + (8 + 16)
                           + (8 + activeBuffer.length * activeBuffer.numberOfChannels * 2)
                           + (IF written[1] # <<>> THEN 8 + 60 ELSE 0)
        IN  /\ Len(blob) = outerSize + 8
            /\ U32Is(blob, 4, outerSize)

\* an export of a 2-frame stereo buffer with a loop
C5_Witness ==
    /\ ExportedWithLoop
    /\ activeBuffer.length = 2
    /\ activeBuffer.numberOfChannels = 2

\* C6: with a loop, the 32-bit loop-start and loop-end fields of the loop
\* record equal the start and end of the loop passed in
C6_LoopFieldsExact ==
    ExportedWithLoop =>
        /\ U32Is(blob, AfterData + 52, written[1][1].start)
        /\ U32Is(blob, AfterData + 56, written[1][1].end)

\* C7: the image holds a smpl chunk right after the data chunk exactly when
\* a loop is passed; without one it ends after the last sample and the
\* declared sizes count no smpl bytes
C7_SmplIffLoop ==
    Exported =>
        /\ TagAt(blob, 36, tagData)
        /\ U32Is(blob, 40, DataSize)
        /\ IF written[1] # <<>>
           THEN /\ Len(blob) = AfterData + 8 + 60
                /\ TagAt(blob, AfterData, tagSmpl)
                /\ U32Is(blob, AfterData + 4, 60)
                /\ U32Is(blob, 4, AfterData + 8 + 60 - 8)
           ELSE /\ Len(blob) = AfterData
                /\ U32Is(blob, 4, AfterData - 8)

\* an export without loop of a buffer that has been exported with its loop
\* dragged before
C7_Witness ==
    /\ ExportedWithoutLoop
    /\ loopPoint # <<fallbackLoop(activeBuffer)>>
    /\ Len(blob) = AfterData

\* C8: parsing the fmt and data chunks of an export without loop gives back
\* the channel count, the sample rate, the frame count and, per frame and
\* channel, the 16-bit value of the sample
C8_RoundTrip ==
    ExportedWithoutLoop =>
        LET channels == U16At(blob, 22)
            sampleRate == U32At(blob, 24)
            dataSize == U32At(blob, 40)
        IN  /\ channels = activeBuffer.numberOfChannels
            /\ sampleRate = activeBuffer.sampleRate
            /\ dataSize = (dataSize \div (channels * 2)) * (channels * 2)
            /\ dataSize \div (channels * 2) = activeBuffer.length
            /\ \A ic \in FramesAndChannels :
                   I16At(blob, 44 + 2 * (ic[1] * channels + ic[2]))
                       = pcmOfSample(SampleOf(ic[1], ic[2]))

\* an export without loop of a 2-frame stereo buffer whose channels differ
C8_Witness ==
    /\ ExportedWithoutLoop
    /\ activeBuffer.length = 2
    /\ activeBuffer.numberOfChannels = 2
    /\ activeBuffer.channels[1] # activeBuffer.channels[2]

\* v is s / SampleScale times scale, truncated toward zero, for |s| below 1.0
TruncatedScaling(s, v) ==
    IF s >= 0
    THEN v >= 0 /\ v * SampleScale <= s * 32767 /\ s * 32767 < (v + 1) * SampleScale
    ELSE v <= 0 /\ (-v) * SampleScale <= (-s) * 32768
                /\ (-s) * 32768 < (1 - v) * SampleScale

\* C9: every stored value is the sample clamped to [-1, 1], scaled (by 32768
\* below zero, else by 32767) and truncated toward zero: it lies in
\* -32768..32767, saturates at -32768 / 32767, and a 1-frame mono file of
\* the sample 1.0 without loop is 46 bytes ending in FF 7F
C9_ClampScaleTruncate ==
    Exported =>
        /\ \A ic \in FramesAndChannels :
               LET s == SampleOf(ic[1], ic[2])
                   v == I16At(blob, 44 + 2 * (ic[1] * activeBuffer.numberOfChannels + ic[2]))
               IN  /\ v \in -32768..32767
                   /\ s >= SampleScale => v = 32767
                   /\ s <= -SampleScale => v = -32768
                   /\ (-SampleScale < s /\ s < SampleScale) => TruncatedScaling(s, v)
        /\ (/\ written[1] = <<>>
            /\ activeBuffer.length = 1
            /\ activeBuffer.numberOfChannels = 1
            /\ SampleOf(0, 0) = SampleScale)
           => (Len(blob) = 46 /\ U8At(blob, 44) = 255 /\ U8At(blob, 45) = 127)

\* an export of a buffer holding 1.5, -1.5 and a negative sample whose
\* scaled value is not an integer
C9_Witness ==
    /\ Exported
    /\ activeBuffer.length = 2
    /\ activeBuffer.channels = <<Alternating(3 * (SampleScale \div 2)), Alternating(-3)>>

(***************************************************************************)
(* Claims about the endpoints and scores of detectLoopPoints               *)
(* (specification SpecDetect)                                              *)
(***************************************************************************)

\* channel 0 of the buffer of the call
Data0 == getChannelData(buffer, 0)

\* the sample at index i and the next one differ in sign
SignChange(i) ==
    LET a == At(Data0, i)
        b == At(Data0, i + 1)
    IN  (a <= 0 /\ b > 0) \/ (a >= 0 /\ b < 0)

\* the positions probed for a start when the end is end: the multiples of
\* the search step below end - 1000
StartProbes(end) ==
    LET step == Max(10, end \div 100)
    IN  {m * step : m \in 0..((end - 1000) \div step)} \cap 0..(end - 1001)

EndProbes == {buffer.length - 100, Floor075(buffer.length), Floor05(buffer.length)}

\* the window around probe holds no sign change at a sample of magnitude
\* below 1.0
NoUsableCrossing(probe, w) ==
    \A j \in Max(0, probe - w)..(Min(buffer.length - 1, probe + w) - 1) :
        ~(SignChange(j) /\ Abs(At(Data0, j)) < SampleScale)

\* idx is what the probe at probe may be snapped to: a sign change at a sample
\* of magnitude below 1.0 within w of the probe, or the probe itself when the
\* window has no such sign change
SnappedOrProbe(idx, probe, w) ==
    /\ Abs(idx - probe) <= w
    /\ \/ SignChange(idx) /\ Abs(At(Data0, idx)) < SampleScale
       \/ idx = probe /\ NoUsableCrossing(probe, w)

\* C11 as stated: the start and the end of every returned candidate are
\* indices of a sign change, within 2000 (end) and 100 (start) of a probe
C11_EndpointsAreCrossings ==
    dpc = "done" =>
        \A k \in 1..Len(points) :
            /\ SignChange(points[k].start)
            /\ SignChange(points[k].end)
            /\ \E probe \in EndProbes : Abs(points[k].end - probe) <= windowSearch
            /\ \E probe \in StartProbes(points[k].end) :
                   Abs(points[k].start - probe) <= startWindow

\* C11 amended: the end of every returned candidate lies within 2000 of an
\* end probe and the start within 100 of a start probe; each is the index of
\* a sign change at a sample of magnitude below 1.0 or, when the window of the
\* probe holds no such sign change, the probed position itself
C11_SnappedOrProbed ==
    dpc = "done" =>
        \A k \in 1..Len(points) :
            /\ \E probe \in EndProbes :
                   SnappedOrProbe(points[k].end, probe, windowSearch)
            /\ \E probe \in StartProbes(points[k].end) :
                   SnappedOrProbe(points[k].start, probe, startWindow)

\* a candidate on a full-scale square wave: the window of its end holds sign
\* changes, all at samples of magnitude 1.0, and the end is the probe
C11_Witness ==
    /\ dpc = "done"
    /\ buffer = Square(30000, 50, SampleScale)
    /\ Len(points) = 1
    /\ points[1].end = Floor075(30000)
    /\ ~SignChange(points[1].end)
    /\ \E j \in (points[1].end - windowSearch)..(points[1].end + windowSearch) :
           SignChange(j)

\* C12 as stated: the score of every returned candidate is an integer
\* strictly greater than 60 and at most 100
C12_ScoreAbove60 ==
    dpc = "done" =>
        \A k \in 1..Len(points) :
            /\ points[k].score \in Int
            /\ points[k].score > 60
            /\ points[k].score <= 100

\* C12 amended: the unrounded score of the returned pair exceeds 60, and the
\* score field is that score rounded to the nearest integer, an integer from
\* 60 to 100
C12_ScoreFrom60 ==
    dpc = "done" =>
        \A k \in 1..Len(points) :
            LET s == calculateCorrelation(Data0, points[k].start, points[k].end,
                                          correlationWindow)
            IN  /\ s > 60 * ScoreDen
                /\ points[k].score \in 60..100
                /\ 2 * Abs(points[k].score * ScoreDen - s) <= ScoreDen

\* a returned candidate whose score field is 60
C12_Witness ==
    /\ dpc = "done"
    /\ buffer = BarelyAccepted
    /\ Len(points) = 1
    /\ points[1].score = 60

\* the mono 44100 Hz buffer with the same channel 0
ChannelZeroAlone == MonoBuffer(buffer.length, buffer.channels[1])

\* C14: the list returned for a buffer with several channels or another
\* sample rate is the list returned for the mono 44100 Hz buffer with the
\* same channel-0 samples
C14_ChannelZeroOnly ==
    (dpc = "done" /\ buffer # ChannelZeroAlone) =>
        points = detectLoopPoints(ChannelZeroAlone)

\* a call on a 96000 Hz buffer with three different channels that returned a
\* candidate
C14_Witness ==
    /\ dpc = "done"
    /\ buffer.sampleRate = 96000
    /\ buffer.numberOfChannels = 3
    /\ buffer.channels[2] # buffer.channels[1]
    /\ points # <<>>

(***************************************************************************)
(* Claims about the layout of the image of exportWavWithSmpl               *)
(* (specification Spec)                                                    *)
(***************************************************************************)

\* the loop of the last export lies outside the buffer or is empty
LoopOutsideBuffer ==
    LET lp == written[1][1]
    IN  \/ lp.start < 0
        \/ lp.start >= activeBuffer.length
        \/ lp.end < 0
        \/ lp.end >= activeBuffer.length
        \/ lp.start >= lp.end

\* C13: an export called with a loop whose start or end is negative or not
\* below frameCount, or whose start is not below its end, writes no smpl
\* chunk carrying those offsets
C13_InvalidLoopRejected ==
    (ExportedWithLoop /\ LoopOutsideBuffer) =>
        ~(Len(blob) >= AfterData + 8 + 60 /\ TagAt(blob, AfterData, tagSmpl))

\* the offset claimed for the sample of frame i, channel c
SampleOffset(i, c) == 44 + 2 * (i * activeBuffer.numberOfChannels + c)

\* C15: the 16-bit value of frame i, channel c is stored at byte offset
\* 44 + 2 * (i * channels + c); different (frame, channel) pairs have different
\* offsets, and together the offsets are those of the data chunk's 16-bit
\* slots, each taken once
C15_Interleaved ==
    Exported =>
        /\ \A ic \in FramesAndChannels :
               I16At(blob, SampleOffset(ic[1], ic[2])) = pcmOfSample(SampleOf(ic[1], ic[2]))
        /\ \A ic, jc \in FramesAndChannels :
               ic # jc => SampleOffset(ic[1], ic[2]) # SampleOffset(jc[1], jc[2])
        /\ {SampleOffset(ic[1], ic[2]) : ic \in FramesAndChannels}
               = {44 + 2 * k : k \in 0..(DataSize \div 2 - 1)}

\* an export of a 2-frame stereo buffer whose four samples are stored as four
\* different values
C15_Witness ==
    /\ Exported
    /\ activeBuffer.length = 2
    /\ activeBuffer.numberOfChannels = 2
    /\ Cardinality({I16At(blob, 44 + 2 * k) : k \in 0..3}) = 4

\* C16: the fmt chunk at offset 12 declares size 16, format 1, the channel
\* count, the sample rate, byte rate sampleRate * channels * 2, block align
\* channels * 2 and 16 bits per sample; the data chunk header at offset 36
\* declares frameCount * channels * 2 bytes
C16_FormatAndDataHeader ==
    Exported =>
        /\ TagAt(blob, 12, tagFmt)
        /\ U32Is(blob, 16, 16)
        /\ U16At(blob, 20) = 1
        /\ U16At(blob, 22) = activeBuffer.numberOfChannels
        /\ U32Is(blob, 24, activeBuffer.sampleRate)
        /\ U32Is(blob, 28, activeBuffer.sampleRate * activeBuffer.numberOfChannels * 2)
        /\ U16At(blob, 32) = activeBuffer.numberOfChannels * 2
        /\ U16At(blob, 34) = 16
        /\ TagAt(blob, 36, tagData)
        /\ U32Is(blob, 40, activeBuffer.length * activeBuffer.numberOfChannels * 2)

\* an export with a loop of a 2-frame stereo 48000 Hz buffer: byte rate
\* 192000, block align 4, 8 data bytes
C16_Witness ==
    /\ ExportedWithLoop
    /\ activeBuffer.length = 2
    /\ activeBuffer.numberOfChannels = 2
    /\ activeBuffer.sampleRate = 48000
    /\ U32At(blob, 28) = 192000
    /\ U32At(blob, 40) = 8

\* C17: with a loop, the smpl chunk after the data declares size 60 and holds
\* the nine 32-bit fields 0, 0, 1e9 / sampleRate truncated, 60, 0, 0, 0, 1, 0
\* and then one loop record 0, 0, start, end, 0, 0, which ends the image
C17_SmplLayout ==
    ExportedWithLoop =>
        LET header == <<0, 0, 1000000000 \div activeBuffer.sampleRate, 60, 0, 0, 0, 1, 0>>
            record == <<0, 0, written[1][1].start, written[1][1].end, 0, 0>>
        IN  /\ TagAt(blob, AfterData, tagSmpl)
            /\ U32Is(blob, AfterData + 4, 60)
            /\ \A k \in 1..9 : U32Is(blob, AfterData + 8 + 4 * (k - 1), header[k])
            /\ \A k \in 1..6 : U32Is(blob, AfterData + 44 + 4 * (k - 1), record[k])
            /\ Len(blob) = AfterData + 44 + 24

\* the same layout with the loop offsets left out of the record
C17_LayoutButOffsets ==
    ExportedWithLoop =>
        LET header == <<0, 0, 1000000000 \div activeBuffer.sampleRate, 60, 0, 0, 0, 1, 0>>
        IN  /\ TagAt(blob, AfterData, tagSmpl)
            /\ U32Is(blob, AfterData + 4, 60)
            /\ \A k \in 1..9 : U32Is(blob, AfterData + 8 + 4 * (k - 1), header[k])
            /\ \A k \in {1, 2, 5, 6} : U32Is(blob, AfterData + 44 + 4 * (k - 1), 0)
            /\ Len(blob) = AfterData + 44 + 24

(***************************************************************************)
(* Claims about the host's loops and the drag edits (specification         *)
(* SpecHost)                                                               *)
(***************************************************************************)

\* C18: a drag edit replaces the active loop by a loop with the same id,
\* score and name in which only the dragged endpoint may differ, and leaves
\* the other loops of the item as they are
C18_OnlyDraggedEndpoint ==
    [][(loopPoint # <<>> /\ loopPoint' # loopPoint) =>
          /\ isDragging \in {"start", "end"}
          /\ loopPoint' # <<>>
          /\ loopPoint'[1].id = loopPoint[1].id
          /\ loopPoint'[1].score = loopPoint[1].score
          /\ loopPoint'[1].name = loopPoint[1].name
          /\ isDragging = "start" => loopPoint'[1].end = loopPoint[1].end
          /\ isDragging = "end" => loopPoint'[1].start = loopPoint[1].start
          /\ Len(points') = Len(points)
          /\ \A k \in 1..Len(points) :
                 IF points[k].id = loopPoint[1].id
                 THEN points'[k] = loopPoint'[1]
                 ELSE points'[k] = points[k]]_vars

\* the start of the first of two detected loops has been dragged from 49 to
\* 10000; the second loop is as detected
C18_Witness ==
    /\ dpc = "processed"
    /\ buffer = TwoLevel(40000, 38800, 50, Amp(0), Amp(1))
    /\ isDragging = "start"
    /\ loopPoint = <<[id |-> 2, start |-> 10000, end |-> 28049, score |-> 100, name |-> 3]>>
    /\ points = <<loopPoint[1],
                  [id |-> 1, start |-> 49, end |-> 38849, score |-> 88, name |-> 2]>>

\* C19 as stated: once an item that decodes has been loaded, or reached by
\* a batch export, it has at least one loop
C19_AlwaysALoop ==
    /\ dpc = "processed" => (points # <<>> /\ loopPoint # <<>>)
    /\ dpc = "batched" => loopPoint # <<>>

\* C19 amended: the whole-buffer loop 0 .. frameCount - 1 is substituted
\* only for a buffer of at most 0.5 s, on which detection is not run; for a
\* longer buffer the item gets exactly the list detection returns, so with
\* no candidate it has no loop, no active loop, and no loop in a batch export
C19_FallbackOnlyWhenShort ==
    [][dpc = "pending" =>
          LET whole == [id |-> 1, start |-> 0, end |-> buffer.length - 1,
                        score |-> 100]
              short == 2 * buffer.length <= buffer.sampleRate
              detected == IF short THEN <<>> ELSE detectLoopPoints(buffer)
          IN  /\ dpc' = "processed" =>
                     /\ short => points' = <<whole @@ [name |-> 0]>>
                     /\ ~short => points' = detected
                     /\ points' = <<>> => loopPoint' = <<>>
                     /\ points' # <<>> => loopPoint' = <<points'[1]>>
              /\ dpc' = "batched" =>
                     /\ short => loopPoint' = <<whole @@ [name |-> -1]>>
                     /\ (~short /\ detected = <<>>) => loopPoint' = <<>>
                     /\ (~short /\ detected # <<>>) => loopPoint' = <<detected[1]>>]_vars

\* a loaded item of more than 0.5 s (22150 frames at 44100 Hz) without any
\* loop
C19_Witness ==
    /\ dpc = "processed"
    /\ buffer = Silence(22150)
    /\ points = <<>>
    /\ loopPoint = <<>>

\* the active loop is one detection returned (its name is "Auto Loop n")
DetectedLoopActive == dpc = "processed" /\ loopPoint # <<>> /\ loopPoint[1].name > 0

\* C20 as stated: whatever drags have been applied to a detected loop, its
\* end is at least 1000 samples after its start
C20_LengthAtLeast1000 ==
    DetectedLoopActive => loopPoint[1].end - loopPoint[1].start >= 1000

\* C20 amended: whatever drags have been applied to a detected loop, its
\* end is at least 100 samples after its start
C20_LengthAtLeast100 ==
    DetectedLoopActive => loopPoint[1].end - loopPoint[1].start >= 100

\* the start of a detected loop has been dragged as far as it goes: 100
\* samples before its end
C20_Witness ==
    /\ DetectedLoopActive
    /\ isDragging = "start"
    /\ loopPoint[1].end = 22099
    /\ loopPoint[1].start = 22099 - 100

(***************************************************************************)
(* Claims about the start scan and findZeroCrossing                        *)
(***************************************************************************)

C21_ScanDone == scan # <<>> /\ scan[1].pc = "done"

\* C21: the start emitted for an accepted end E is the snapped start of the
\* earliest probe of maximum score among the probes 0, step, 2 step, ...
\* below E - 1000 whose snapped start is below E - 1000; every iteration
\* advances the probe by the step, at least 10, so that the scan ends after
\* at most 101 probes
C21_BestStartFound ==
    scan # <<>> =>
        LET sc == scan[1]
            data == getChannelData(buffer, 0)
            n == Len(sc.seen)
        IN  /\ sc.searchStep = Max(10, sc.validEnd \div 100)
            /\ sc.maxStartIndex = sc.validEnd - 1000
            /\ sc.searchStep >= 10
            /\ sc.i = sc.probes * sc.searchStep
            /\ sc.i < sc.maxStartIndex + sc.searchStep
            /\ sc.probes <= 101
            /\ \A k \in 1..n : sc.seen[k].score <= sc.bestScore
            /\ n = 0 => sc.bestScore < 0
            /\ n > 0 =>
                   /\ \E k \in 1..n :
                          /\ sc.seen[k].start = sc.bestStart
                          /\ sc.seen[k].score = sc.bestScore
                          /\ \A j \in 1..(k - 1) : sc.seen[j].score < sc.bestScore
                   /\ LET e == sc.seen[n]
                      IN  /\ e.probe % sc.searchStep = 0
                          /\ e.probe < sc.maxStartIndex
                          /\ Abs(e.start - e.probe) <= startWindow
                          /\ e.start < sc.maxStartIndex
                          /\ e.start = findZeroCrossing(data, e.probe, startWindow)
                          /\ e.score = calculateCorrelation(data, e.start, sc.validEnd,
                                                            correlationWindow)
            /\ sc.pc = "done" =>
                   /\ sc.i >= sc.maxStartIndex
                   /\ points # <<>> <=> sc.bestScore > 60 * ScoreDen
                   /\ points # <<>> =>
                          (points[1].start = sc.bestStart /\ points[1].end = sc.validEnd)
                   /\ <<sc.bestStart, sc.bestScore>>
                          = startScan(data, sc.validEnd, sc.searchStep, sc.maxStartIndex)

\* a scan has ended with a candidate: some probes were skipped, several
\* probes reached the best score and others scored less
C21_Witness ==
    /\ C21_ScanDone
    /\ points # <<>>
    /\ scan[1].probes > Len(scan[1].seen)
    /\ \E j, k \in 1..Len(scan[1].seen) :
           /\ j < k
           /\ scan[1].seen[j].score = scan[1].bestScore
           /\ scan[1].seen[k].score = scan[1].bestScore
    /\ \E k \in 1..Len(scan[1].seen) : scan[1].seen[k].score < scan[1].bestScore

\* the indices of the window of the call at which the sample and the next
\* one differ in sign
CrossingsInWindow ==
    LET lo == Max(0, zc[1].target - zc[1].windowSize)
        hi == Min(buffer.length - 1, zc[1].target + zc[1].windowSize)
    IN  {i \in lo..(hi - 1) : SignChange(i)}

\* result is the lowest index of smallest magnitude in the set S of indices
LowestOfSmallest(result, S) ==
    /\ result \in S
    /\ \A j \in S : Abs(At(Data0, result)) <= Abs(At(Data0, j))
    /\ \A j \in S : Abs(At(Data0, j)) = Abs(At(Data0, result)) => result <= j

\* C22 as stated: when the window holds a sign change, the result is the
\* index of a sign change in the window with the smallest |data[i]|, the
\* lowest such index on ties
C22_SmallestCrossing ==
    (zc # <<>> /\ CrossingsInWindow # {}) =>
        LowestOfSmallest(zc[1].result, CrossingsInWindow)

\* what the call does return: only sign changes at a sample of magnitude
\* below 1.0 count; when the window holds one, the result is the lowest index
\* of smallest magnitude among them, and otherwise it is the target
C22_SmallestUsableCrossing ==
    zc # <<>> =>
        LET usable == {i \in CrossingsInWindow : Abs(At(Data0, i)) < SampleScale}
        IN  IF usable = {} THEN zc[1].result = zc[1].target
            ELSE LowestOfSmallest(zc[1].result, usable)

\* C24: for every returned candidate the 500-sample windows at its start and
\* at its end lie strictly inside the buffer: start + 500 < frameCount and
\* end + 500 < frameCount
C24_WindowsInside ==
    dpc = "done" =>
        \A k \in 1..Len(points) :
            /\ points[k].start + correlationWindow < buffer.length
            /\ points[k].end + correlationWindow < buffer.length

\* the call on 2 s of silence: the end of the top region stays at 88100,
\* within 500 samples of the end of the buffer, and no returned candidate
\* ends there
C24_Witness ==
    /\ dpc = "done"
    /\ buffer = Silence(88200)
    /\ findZeroCrossing(Data0, buffer.length - 100, windowSearch) + correlationWindow
           >= buffer.length
    /\ Len(points) = 2
    /\ \A k \in 1..Len(points) : points[k].end < buffer.length - 100

(***************************************************************************)
(* Claims about the editor and the App                                     *)
(***************************************************************************)

\* C27: whatever mouse events the editor has handled, the loop of a loaded
\* item lies inside its buffer: 0 <= start < end <= frameCount - 1
C27_LoopInsideBuffer ==
    (dpc = "processed" /\ loopPoint # <<>>) =>
        /\ 0 <= loopPoint[1].start
        /\ loopPoint[1].start < loopPoint[1].end
        /\ loopPoint[1].end <= activeBuffer.length - 1

\* the same for a detected loop after at least one press on a handle
C27_DetectedLoopInsideBuffer ==
    (DetectedLoopActive /\ isDragging # "none") =>
        /\ 0 <= loopPoint[1].start
        /\ loopPoint[1].start < loopPoint[1].end
        /\ loopPoint[1].end <= activeBuffer.length - 1

\* once every pending decode has completed, a non-null activeBuffer is the
\* decoded audio of an item of the list, the one activeItemId identifies
C25_BufferOfListedActiveItem ==
    (inflight = {} /\ activeBuffer # NullBuffer) =>
        /\ activeItem # <<>>
        /\ activeBuffer = decodeFile(activeItem[1].file)

\* C25: once every pending decode has completed, a non-null activeBuffer is
\* the decoded audio of the item that activeItemId identifies, never that of
\* another item (here for an active item that is still in the list)
C25_BufferOfActiveItem ==
    (inflight = {} /\ activeBuffer # NullBuffer /\ activeItem # <<>>) =>
        activeBuffer = decodeFile(activeItem[1].file)

\* the selection of an item is null exactly when the item has no loop, else
\* it is the id of exactly one loop of the item; loop ids are distinct
SelectionValid(item) ==
    LET pts == item.loopPoints
    IN  /\ item.selectedLoopId = 0 <=> Len(pts) = 0
        /\ Len(pts) > 0 =>
               Cardinality({k \in 1..Len(pts) : pts[k].id = item.selectedLoopId}) = 1
        /\ \A j, k \in 1..Len(pts) : j # k => pts[j].id # pts[k].id

\* C26: after every upload, load, loop selection, drag edit and removal the
\* selectedLoopId of every item is null exactly when its loopPoints is empty
\* and otherwise the id of exactly one of its loops, whose ids are pairwise
\* distinct; when a load has run detection for an item, the item holds the
\* detected list and its selected id is that of the first candidate
C26_SelectedLoopValid ==
    [][/\ \A k \in 1..Len(batchItems') : SelectionValid(batchItems'[k])
       /\ \A job \in inflight \ inflight' :
              (decodes(job.file) /\ job.detect) =>
                  \A k \in 1..Len(batchItems') :
                      batchItems'[k].id = job.id =>
                          LET item == batchItems'[k]
                          IN  /\ item.status = "processed"
                              /\ item.loopPoints = loopsOfFile[job.file].loaded
                              /\ item.selectedLoopId =
                                     IF item.loopPoints = <<>> THEN 0
                                     ELSE item.loopPoints[1].id]_vars

\* an item with two loops of which the second is selected and one has been
\* dragged, next to an item for which detection found no loop
C26_Witness ==
    \E j, k \in 1..Len(batchItems) :
        /\ Len(batchItems[j].loopPoints) = 2
        /\ batchItems[j].selectedLoopId = batchItems[j].loopPoints[2].id
        /\ batchItems[j].loopPoints[1].id > batchItems[j].loopPoints[2].id
        /\ batchItems[j].loopPoints # loopsOfFile[batchItems[j].file].loaded
        /\ batchItems[k].status = "processed"
        /\ batchItems[k].loopPoints = <<>>
        /\ batchItems[k].selectedLoopId = 0

\* the batch export has left its loop over the items
C23_LoopEnded == zipJob # <<>> /\ zipJob[1].k > Len(batchItems)

\* the calls of the writer made for the item at position k of the list
C23_CallsFor(k) ==
    {c \in 1..Len(zipJob[1].calls) : zipJob[1].calls[c].id = batchItems[k].id}

C23_Decoded(item) ==
    (item.id = activeItemId /\ activeBuffer # NullBuffer) \/ decodes(item.file)

\* there is a loop to export for the item: its selected loop, or for an item
\* without loops that the export decodes the first loop the export finds
C23_HasLoop(item) ==
    IF item.id = activeItemId /\ activeBuffer # NullBuffer
    THEN \E p \in 1..Len(item.loopPoints) : item.loopPoints[p].id = item.selectedLoopId
    ELSE IF item.status = "pending" \/ item.loopPoints = <<>>
         THEN loopsOfFile[item.file].batch # <<>>
         ELSE TRUE

====
